---- MODULE Spec2Model ----
(***************************************************************************)
(* Model of the lineage core of streamlit_data_validation_app.py:          *)
(* get_object_type, get_lineage_for_single_object and                      *)
(* get_lineage_for_multiple_objects, run against a fixed warehouse         *)
(* (INFORMATION_SCHEMA.TABLES and SNOWFLAKE.CORE.GET_LINEAGE).             *)
(*                                                                         *)
(* A Python str is a sequence of one-character strings.  A pandas          *)
(* DataFrame is a sequence of rows; a value that may be None is a record   *)
(* [isNone, rows].                                                         *)
(***************************************************************************)
EXTENDS Integers, Sequences, FiniteSets, TLC

\* ------------------------------------------------------------------------
\* Bounds
\* ------------------------------------------------------------------------

\* longest raw identifier handed to get_lineage_for_single_object
MaxLen == 5

\* longest object_names list handed to get_lineage_for_multiple_objects
MaxBatch == 3

\* most rows of an uploaded file
MaxRows == 2

\* ------------------------------------------------------------------------
\* Program constants
\* ------------------------------------------------------------------------

\* st.number_input(min_value=1, max_value=5): the bounds of both distance inputs
MinDistance == 1

MaxDistance == 5

\* ------------------------------------------------------------------------
\* Strings
\* ------------------------------------------------------------------------

\* the characters a raw identifier is made of: a lower-case letter, an
\* upper-case letter, the separator and white space
Alphabet == {"a", "B", ".", " "}

\* str.upper() on one character
UpperChar(c) == IF c = "a" THEN "A" ELSE c

\* str.upper()
Upper(s) == [i \in 1..Len(s) |-> UpperChar(s[i])]

IsSpace(c) == c = " "

RECURSIVE LStrip(_)
LStrip(s) == IF s # <<>> /\ IsSpace(Head(s)) THEN LStrip(Tail(s)) ELSE s

RECURSIVE RStrip(_)
RStrip(s) ==
    IF s # <<>> /\ IsSpace(s[Len(s)]) THEN RStrip(SubSeq(s, 1, Len(s) - 1)) ELSE s

\* str.strip()
Strip(s) == RStrip(LStrip(s))

\* position of the first '.' of s, 0 when there is none
FirstDot(s) ==
    IF \E i \in 1..Len(s) : s[i] = "."
    THEN CHOOSE i \in 1..Len(s) : s[i] = "." /\ \A j \in 1..(i - 1) : s[j] # "."
    ELSE 0

\* str.split('.'): the empty string splits into one empty part
RECURSIVE Split(_)
Split(s) ==
    IF FirstDot(s) = 0 THEN <<s>>
    ELSE <<SubSeq(s, 1, FirstDot(s) - 1)>> \o Split(SubSeq(s, FirstDot(s) + 1, Len(s)))

\* f"{a}.{b}.{c}"
DotJoin(a, b, c) == a \o <<".">> \o b \o <<".">> \o c

\* all strings over Alphabet of length at most n
StringsUpTo(n) == UNION {[1..k -> Alphabet] : k \in 0..n}

\* Python's None where a str is expected (session.get_current_database())
NoneStr == <<"None">>

\* truth value of an Optional[str] in an if
Truthy(s) == s # NoneStr /\ s # <<>>

\* a DataFrame that may be None
NoneDf == [isNone |-> TRUE, rows |-> <<>>]

Df(rows) == [isNone |-> FALSE, rows |-> rows]

\* ------------------------------------------------------------------------
\* The warehouse behind session.sql: a fixed catalog and lineage graph
\* ------------------------------------------------------------------------

A == <<"A">>

B == <<"B">>

\* the content of <db>.INFORMATION_SCHEMA.TABLES: the TABLE_TYPE rows of the
\* object, and whether the query fails (unknown database, no database name)
InformationSchemaTables(db_name, schema_name, object_name) ==
    LET ref == <<db_name, schema_name, object_name>> IN
    IF db_name = <<>> \/ ref = <<B, A, B>> THEN [raised |-> TRUE, rows |-> <<>>]
    ELSE IF ref \in {<<A, A, A>>, <<A, B, A>>, <<B, B, B>>}
         THEN [raised |-> FALSE, rows |-> <<"BASE TABLE">>]
    ELSE IF ref \in {<<A, A, B>>, <<B, B, A>>}
         THEN [raised |-> FALSE, rows |-> <<"VIEW">>]
    ELSE IF ref = <<A, B, B>>
         THEN [raised |-> FALSE, rows |-> <<"EXTERNAL TABLE">>]
    ELSE [raised |-> FALSE, rows |-> <<>>]

\* one row of SNOWFLAKE.CORE.GET_LINEAGE; the domain, database and schema
\* columns of both ends travel with the row exactly as the three kept here
Edge(d, src, tgt) ==
    [DISTANCE |-> d, SOURCE_OBJECT_NAME |-> src, TARGET_OBJECT_NAME |-> tgt]

\* the rows of the lineage graph, in the order the table function emits them
LineageGraph(fqn, direction) ==
    IF fqn = DotJoin(A, A, A) /\ direction = "UPSTREAM"
        THEN <<Edge(2, "S3", "S1"), Edge(1, "S1", "AAA"), Edge(2, "S2", "S1")>>
    ELSE IF fqn = DotJoin(A, A, A) /\ direction = "DOWNSTREAM"
        THEN <<Edge(1, "AAA", "AAB")>>
    ELSE IF fqn = DotJoin(A, A, B) /\ direction = "UPSTREAM"
        THEN <<Edge(2, "S1", "AAA"), Edge(1, "AAA", "AAB")>>
    ELSE IF fqn = DotJoin(A, B, A) /\ direction = "UPSTREAM"
        THEN <<Edge(1, "S1", "ABA")>>
    ELSE IF fqn = DotJoin(B, B, B) /\ direction = "DOWNSTREAM"
        THEN <<Edge(1, "BBB", "T2")>>
    ELSE <<>>

\* TABLE(SNOWFLAKE.CORE.GET_LINEAGE(fqn, object_type, direction, distance)):
\* the edges within the distance
GET_LINEAGE(fqn, object_type, direction, distance) ==
    SelectSeq(LineageGraph(fqn, direction), LAMBDA e : e.DISTANCE <= distance)

\* the lineage call the warehouse refuses (insufficient privilege)
LineageDenied(fqn, direction) ==
    \/ fqn = DotJoin(A, B, A) /\ direction = "DOWNSTREAM"
    \/ fqn = DotJoin(B, B, B) /\ direction = "UPSTREAM"

\* the object whose lineage call may or may not get through (connectivity):
\* the same call can fail once and be answered the next time
LineageUnreliable(fqn) == fqn = DotJoin(A, A, B)

\* string order of the object names of the graph
NameRank(n) ==
    CHOOSE i \in 1..8 : <<"AAA", "AAB", "ABA", "BBB", "S1", "S2", "S3", "T2">>[i] = n

\* DirectionRank with the two literals in the order the query selects them
DirectionRank_SelectOrder(d) == IF d = "UPSTREAM" THEN 0 ELSE 1

\* string order of the two direction literals: 'DOWNSTREAM' < 'UPSTREAM'
DirectionRank(d) == IF d = "DOWNSTREAM" THEN 0 ELSE 1

\* ascending order of two-column sort keys
KeyLeq(k, l) == k[1] < l[1] \/ (k[1] = l[1] /\ k[2] <= l[2])

\* ORDER BY: every arrangement of the rows whose keys ascend; rows that tie
\* may come in any order
OrderBy(rows, keys) ==
    LET n == Len(rows)
        perms == {f \in [1..n -> 1..n] : \A i, j \in 1..n : f[i] = f[j] => i = j}
    IN  {[i \in 1..n |-> rows[f[i]]] :
            f \in {g \in perms : \A i, j \in 1..n : i < j => KeyLeq(keys[g[i]], keys[g[j]])}}

\* ORDER BY DISTANCE, SOURCE_OBJECT_NAME
UpstreamKeys(rows) ==
    [i \in 1..Len(rows) |-> <<rows[i].DISTANCE, NameRank(rows[i].SOURCE_OBJECT_NAME)>>]

\* ORDER BY DISTANCE, TARGET_OBJECT_NAME
DownstreamKeys(rows) ==
    [i \in 1..Len(rows) |-> <<rows[i].DISTANCE, NameRank(rows[i].TARGET_OBJECT_NAME)>>]

\* ORDER BY LINEAGE_DIRECTION, DISTANCE
CombinedKeys(rows) ==
    [i \in 1..Len(rows) |-> <<DirectionRank(rows[i].LINEAGE_DIRECTION), rows[i].DISTANCE>>]

Raised == [raised |-> TRUE, rows |-> <<>>]

Answer(rows) == [raised |-> FALSE, rows |-> rows]

\* a distance the table function documents no answer for; whether the
\* warehouse rejects such a call or answers it is a property of the warehouse
Undocumented(distance) == distance \notin MinDistance..MaxDistance

\* session.sql(upstream_query).to_pandas(): the outcomes the warehouse can give
upstream_query(fqn, object_type, max_distance, strict) ==
    LET edges == GET_LINEAGE(fqn, object_type, "UPSTREAM", max_distance)
        answers == {Answer(r) : r \in OrderBy(edges, UpstreamKeys(edges))}
    IN  IF LineageDenied(fqn, "UPSTREAM") THEN {Raised}
        ELSE IF Undocumented(max_distance) /\ strict THEN {Raised}
        ELSE IF LineageUnreliable(fqn) THEN answers \cup {Raised}
        ELSE answers

\* session.sql(downstream_query).to_pandas()
downstream_query(fqn, object_type, max_distance, strict) ==
    LET edges == GET_LINEAGE(fqn, object_type, "DOWNSTREAM", max_distance)
        answers == {Answer(r) : r \in OrderBy(edges, DownstreamKeys(edges))}
    IN  IF LineageDenied(fqn, "DOWNSTREAM") THEN {Raised}
        ELSE IF Undocumented(max_distance) /\ strict THEN {Raised}
        ELSE IF LineageUnreliable(fqn) THEN answers \cup {Raised}
        ELSE answers

\* Tagged with the 'UPSTREAM' literal left in both selects
Tagged_UpstreamLiteral(obj_name, direction, e) ==
    [QUERIED_OBJECT |-> obj_name, LINEAGE_DIRECTION |-> "UPSTREAM",
     DISTANCE |-> e.DISTANCE, SOURCE_OBJECT_NAME |-> e.SOURCE_OBJECT_NAME,
     TARGET_OBJECT_NAME |-> e.TARGET_OBJECT_NAME]

\* a row of the combined query: the edge with the two literal columns in front
Tagged(obj_name, direction, e) ==
    [QUERIED_OBJECT |-> obj_name, LINEAGE_DIRECTION |-> direction,
     DISTANCE |-> e.DISTANCE, SOURCE_OBJECT_NAME |-> e.SOURCE_OBJECT_NAME,
     TARGET_OBJECT_NAME |-> e.TARGET_OBJECT_NAME]

TagAll(obj_name, direction, edges) ==
    [i \in 1..Len(edges) |-> Tagged(obj_name, direction, edges[i])]

\* session.sql(combined_query).to_pandas(): the UPSTREAM select UNION ALL the
\* DOWNSTREAM select, then the ORDER BY over the whole union
combined_query(obj_name, fqn, object_type, max_distance, strict) ==
    LET up   == TagAll(obj_name, "UPSTREAM",
                       GET_LINEAGE(fqn, object_type, "UPSTREAM", max_distance))
        down == TagAll(obj_name, "DOWNSTREAM",
                       GET_LINEAGE(fqn, object_type, "DOWNSTREAM", max_distance))
        answers == {Answer(r) : r \in OrderBy(up \o down, CombinedKeys(up \o down))}
    IN  IF LineageDenied(fqn, "UPSTREAM") \/ LineageDenied(fqn, "DOWNSTREAM")
        THEN {Raised}
        ELSE IF Undocumented(max_distance) /\ strict THEN {Raised}
        ELSE IF LineageUnreliable(fqn) THEN answers \cup {Raised}
        ELSE answers

\* ------------------------------------------------------------------------
\* get_object_type
\* ------------------------------------------------------------------------

\* TableTypeOf with "is not a view" taken for "is a table"
TableTypeOf_NotViewIsTable(response) ==
    IF response.raised THEN "None"
    ELSE IF response.rows # <<>>
         THEN IF response.rows[1] = "VIEW" THEN "VIEW" ELSE "TABLE"
    ELSE "None"

\* the mapping of the catalog's answer to 'TABLE', 'VIEW' or None
TableTypeOf(response) ==
    IF response.raised THEN "None"
    ELSE IF response.rows # <<>>
         THEN IF response.rows[1] = "BASE TABLE" THEN "TABLE"
              ELSE IF response.rows[1] = "VIEW" THEN "VIEW"
              ELSE "None"
    ELSE "None"

get_object_type(db_name, schema_name, object_name) ==
    TableTypeOf(InformationSchemaTables(db_name, schema_name, object_name))

\* ------------------------------------------------------------------------
\* Inputs
\* ------------------------------------------------------------------------

\* what session.get_current_database() can return: None, '' or a name
Databases == {NoneStr, <<>>, <<"a">>}

\* the distances a caller can pass: the ends of the UI range, one step
\* outside it, and a distance inside it
DistanceInputs ==
    {MinDistance - 1, MinDistance, MinDistance + 1, MaxDistance, MaxDistance + 1}

\* the raw identifiers a batch is drawn from
BatchNames ==
    { <<"a", ".", "a", ".", "a">>,          \* a table with lineage both ways
      <<"a", ".", "B", ".", "a">>,          \* a table whose lineage is denied
      <<"a", ".", "B", ".", "B">>,          \* neither a table nor a view
      <<"B", ".", "B", ".", "a">>,          \* a view without lineage
      <<" ", "a", ".", "B">>,               \* two parts, white space around
      <<"a">> }                             \* one part

Batches == UNION {[1..k -> BatchNames] : k \in 0..MaxBatch}

\* ------------------------------------------------------------------------
\* State
\* ------------------------------------------------------------------------

VARIABLES
    pc,                \* "single", "loop": the call under way; "returned_*": over
    object_full_name,  \* argument of get_lineage_for_single_object
    object_names,      \* argument of get_lineage_for_multiple_objects
    max_distance,      \* argument of both
    current_db,        \* what session.get_current_database() returns
    strict_distance,   \* the warehouse rejects an undocumented distance
    processed_count,   \* get_lineage_for_multiple_objects: objects taken so far
    all_lineage_data,  \* the non-empty DataFrames collected so far
    failed_objects,    \* the names skipped so far
    combined_df,       \* first element of the multi-object return value
    single_result,     \* return value of get_lineage_for_single_object
    resolved,          \* db_name, schema_name, obj_name parsed for each object
    provider_log,      \* calls of session.get_current_database()
    catalog_log,       \* calls of get_object_type, with the catalog's answer
    sql_log,           \* lineage queries handed to session.sql
    messages,          \* st.error / st.warning / st.info calls
    session_state,     \* st.session_state: 'single_analysis', 'multi_analysis'
    clicked,           \* the button whose click started the script run
    openpyxl,          \* pd.ExcelWriter(engine='openpyxl') works in this deployment
    rendered           \* what the script run has put on the page so far

vars == <<pc, object_full_name, object_names, max_distance, current_db, strict_distance,
          processed_count, all_lineage_data, failed_objects, combined_df,
          single_result, resolved, provider_log, catalog_log, sql_log, messages,
          session_state, clicked, openpyxl, rendered>>

\* a key of st.session_state: not in it, None, or the parameters of an analysis
Absent == [kind |-> "absent"]

NoneEntry == [kind |-> "None"]

\* no script run has taken place yet
NoSessionState == [single_analysis |-> Absent, multi_analysis |-> Absent]

\* both keys present and None: the state the last lines of the script set up
IdleSessionState == [single_analysis |-> NoneEntry, multi_analysis |-> NoneEntry]

\* NoneResult with empty DataFrames in place of the two None
NoneResult_EmptyFrames ==
    [upstream_df |-> Df(<<>>), downstream_df |-> Df(<<>>), object_type |-> "None"]

\* return None, None, None
NoneResult == [upstream_df |-> NoneDf, downstream_df |-> NoneDf, object_type |-> "None"]

\* the environment of a call, and the locals of both functions at entry
InitCommon ==
    /\ current_db \in Databases
    /\ max_distance \in DistanceInputs
    /\ strict_distance \in (IF Undocumented(max_distance) THEN BOOLEAN ELSE {FALSE})
    /\ processed_count = 0
    /\ all_lineage_data = <<>>
    /\ failed_objects = <<>>
    /\ combined_df = <<>>
    /\ single_result = NoneResult
    /\ resolved = <<>>
    /\ provider_log = <<>>
    /\ catalog_log = <<>>
    /\ sql_log = <<>>
    /\ messages = <<>>

\* a call of one of the two functions on its own, outside a script run
NoScript ==
    /\ session_state = IdleSessionState
    /\ clicked = "none"
    /\ openpyxl = TRUE
    /\ rendered = <<>>

\* a call of get_lineage_for_single_object
InitSingle ==
    /\ pc = "single"
    /\ object_full_name \in StringsUpTo(MaxLen)
    /\ object_names = <<>>
    /\ InitCommon
    /\ NoScript

\* a call of get_lineage_for_multiple_objects
InitMulti ==
    /\ pc = "loop"
    /\ object_full_name = <<>>
    /\ object_names \in Batches
    /\ InitCommon
    /\ NoScript

Init == InitSingle \/ InitMulti

\* ------------------------------------------------------------------------
\* Parsing the object name
\* ------------------------------------------------------------------------

Parsed(outcome, db, schema, obj, asked) ==
    [outcome |-> outcome, db_name |-> db, schema_name |-> schema,
     obj_name |-> obj, asked |-> asked]

\* ParseSingle with the database part of a three-part name left as typed
ParseSingle_DbAsTyped(full_name, db) ==
    LET parts == Split(Strip(full_name)) IN
    IF Len(parts) = 3
        THEN Parsed("ok", parts[1], Upper(parts[2]), Upper(parts[3]), FALSE)
    ELSE IF Len(parts) = 2
        THEN IF Truthy(db)
             THEN Parsed("ok", Upper(db), Upper(parts[1]), Upper(parts[2]), TRUE)
             ELSE Parsed("ambiguous_db", <<>>, Upper(parts[1]), Upper(parts[2]), TRUE)
    ELSE Parsed("invalid_format", <<>>, <<>>, <<>>, FALSE)

\* ParseSingle taking the first three parts of a longer name
ParseSingle_AtLeastThree(full_name, db) ==
    LET parts == Split(Strip(full_name)) IN
    IF Len(parts) >= 3
        THEN Parsed("ok", Upper(parts[1]), Upper(parts[2]), Upper(parts[3]), FALSE)
    ELSE IF Len(parts) = 2
        THEN IF Truthy(db)
             THEN Parsed("ok", Upper(db), Upper(parts[1]), Upper(parts[2]), TRUE)
             ELSE Parsed("ambiguous_db", <<>>, Upper(parts[1]), Upper(parts[2]), TRUE)
    ELSE Parsed("invalid_format", <<>>, <<>>, <<>>, FALSE)

\* get_lineage_for_single_object: strip, split, upper-case each part
ParseSingle(full_name, db) ==
    LET parts == Split(Strip(full_name)) IN
    IF Len(parts) = 3
        THEN Parsed("ok", Upper(parts[1]), Upper(parts[2]), Upper(parts[3]), FALSE)
    ELSE IF Len(parts) = 2
        THEN IF Truthy(db)
             THEN Parsed("ok", Upper(db), Upper(parts[1]), Upper(parts[2]), TRUE)
             ELSE Parsed("ambiguous_db", <<>>, Upper(parts[1]), Upper(parts[2]), TRUE)
    ELSE Parsed("invalid_format", <<>>, <<>>, <<>>, FALSE)

\* obj_name = obj_name.strip().upper()
QueriedName(raw) == Upper(Strip(raw))

\* ParseMulti testing the current database with "is not None"
ParseMulti_IsNotNone(obj_name, db) ==
    LET parts == Split(obj_name) IN
    IF Len(parts) = 3
        THEN Parsed("ok", parts[1], parts[2], parts[3], FALSE)
    ELSE IF Len(parts) = 2
        THEN IF db # NoneStr
             THEN Parsed("ok", Upper(db), parts[1], parts[2], TRUE)
             ELSE Parsed("ambiguous_db", <<>>, parts[1], parts[2], TRUE)
    ELSE Parsed("invalid_format", <<>>, <<>>, <<>>, FALSE)

\* get_lineage_for_multiple_objects: split the stripped, upper-cased name
ParseMulti(obj_name, db) ==
    LET parts == Split(obj_name) IN
    IF Len(parts) = 3
        THEN Parsed("ok", parts[1], parts[2], parts[3], FALSE)
    ELSE IF Len(parts) = 2
        THEN IF Truthy(db)
             THEN Parsed("ok", Upper(db), parts[1], parts[2], TRUE)
             ELSE Parsed("ambiguous_db", <<>>, parts[1], parts[2], TRUE)
    ELSE Parsed("invalid_format", <<>>, <<>>, <<>>, FALSE)

\* log entries, each tagged with the position i of the object in the input
ResolvedEntry(i, raw, p) ==
    [i |-> i, raw |-> raw, outcome |-> p.outcome, db_name |-> p.db_name,
     schema_name |-> p.schema_name, obj_name |-> p.obj_name]

CatalogEntry(i, p) ==
    [i |-> i, db_name |-> p.db_name, schema_name |-> p.schema_name,
     object_name |-> p.obj_name,
     response |-> InformationSchemaTables(p.db_name, p.schema_name, p.obj_name),
     result |-> get_object_type(p.db_name, p.schema_name, p.obj_name)]

SqlEntry(i, direction, fqn, object_type, distance, outcome) ==
    [i |-> i, direction |-> direction, fqn |-> fqn, object_type |-> object_type,
     max_distance |-> distance, raised |-> outcome.raised, rows |-> outcome.rows]

Message(i, level, kind) == [i |-> i, level |-> level, kind |-> kind]

\* the st.warning of get_object_type's except branch
TypeWarning(i, p) ==
    IF InformationSchemaTables(p.db_name, p.schema_name, p.obj_name).raised
    THEN <<Message(i, "warning", "type_lookup_raised")>> ELSE <<>>

\* ------------------------------------------------------------------------
\* get_lineage_for_single_object
\* ------------------------------------------------------------------------

\* TypeMissing never true: the lineage queries are built for any type
TypeMissing_Never(object_type) == FALSE

\* if object_type is None
TypeMissing(object_type) == object_type = "None"

SingleUnchanged ==
    UNCHANGED <<object_full_name, object_names, max_distance, current_db,
                strict_distance, processed_count, all_lineage_data, failed_objects, combined_df,
                session_state, clicked, openpyxl, rendered>>

\* the try block: the upstream query, then the downstream query; the first
\* exception ends the block
SingleExecute(p, object_type) ==
    LET fqn == DotJoin(p.db_name, p.schema_name, p.obj_name)
        failure == <<Message(1, "error", "exec_error"),
                     Message(1, "info", "privileges_hint")>>
    IN  \E up \in upstream_query(fqn, object_type, max_distance, strict_distance) :
          LET upEntry == SqlEntry(1, "UPSTREAM", fqn, object_type, max_distance, up) IN
          IF up.raised
          THEN /\ sql_log' = <<upEntry>>
               /\ messages' = failure
               /\ single_result' = NoneResult
          ELSE \E down \in downstream_query(fqn, object_type, max_distance,
                                              strict_distance) :
                 /\ sql_log' = <<upEntry, SqlEntry(1, "DOWNSTREAM", fqn, object_type,
                                                   max_distance, down)>>
                 /\ IF down.raised
                    THEN /\ messages' = failure
                         /\ single_result' = NoneResult
                    ELSE /\ messages' = <<>>
                         /\ single_result' = [upstream_df |-> Df(up.rows),
                                              downstream_df |-> Df(down.rows),
                                              object_type |-> object_type]

get_lineage_for_single_object ==
    /\ pc = "single"
    /\ pc' = "returned_single"
    /\ LET p == ParseSingle(object_full_name, current_db) IN
       /\ resolved' = <<ResolvedEntry(1, object_full_name, p)>>
       /\ provider_log' = IF p.asked THEN <<1>> ELSE <<>>
       /\ IF p.outcome # "ok"
          THEN /\ messages' = <<Message(1, "error", p.outcome)>>
               /\ single_result' = NoneResult
               /\ catalog_log' = <<>>
               /\ sql_log' = <<>>
          ELSE LET object_type == get_object_type(p.db_name, p.schema_name, p.obj_name) IN
               /\ catalog_log' = <<CatalogEntry(1, p)>>
               /\ IF TypeMissing(object_type)
                  THEN /\ messages' = TypeWarning(1, p) \o
                                      <<Message(1, "error", "type_unknown")>>
                       /\ single_result' = NoneResult
                       /\ sql_log' = <<>>
                  ELSE SingleExecute(p, object_type)
    /\ SingleUnchanged

\* ------------------------------------------------------------------------
\* get_lineage_for_multiple_objects
\* ------------------------------------------------------------------------

MultiUnchanged ==
    UNCHANGED <<object_full_name, object_names, max_distance, current_db,
                strict_distance, single_result, session_state, clicked, openpyxl, rendered>>

\* AppendFailed keeping each name once
AppendFailed_Distinct(failed, obj_name) ==
    IF \E k \in 1..Len(failed) : failed[k] = obj_name THEN failed ELSE Append(failed, obj_name)

\* failed_objects.append(obj_name)
AppendFailed(failed, obj_name) == Append(failed, obj_name)

\* Collect putting the newest DataFrame in front
Collect_InFront(data, lineage_df) ==
    IF lineage_df # <<>> THEN <<lineage_df>> \o data ELSE data

\* Collect leaving out a DataFrame equal to one already collected
Collect_SkipSeen(data, lineage_df) ==
    IF lineage_df # <<>> /\ (\A k \in 1..Len(data) : data[k] # lineage_df)
    THEN Append(data, lineage_df) ELSE data

\* if not lineage_df.empty: all_lineage_data.append(lineage_df)
Collect(data, lineage_df) == IF lineage_df # <<>> THEN Append(data, lineage_df) ELSE data

\* the skipped object is taken again by the next pass of the loop
Continue_Retry(count, names) == count

\* break instead of continue: a skipped object ends the loop
Continue_Break(count, names) == Len(names)

\* continue: after a skipped object the loop goes on with the next one
Continue(count, names) == count + 1

\* pd.concat(all_lineage_data, ignore_index=True), or pd.DataFrame()
RECURSIVE Concat(_)
Concat(data) == IF data = <<>> THEN <<>> ELSE Head(data) \o Concat(Tail(data))

\* one pass of "for obj_name in object_names"
multi_loop_body ==
    /\ pc = "loop"
    /\ processed_count < Len(object_names)
    /\ LET i == processed_count + 1
           obj_name == QueriedName(object_names[i])
           p == ParseMulti(obj_name, current_db)
       IN
       /\ pc' = "loop"
       /\ resolved' = Append(resolved, ResolvedEntry(i, object_names[i], p))
       /\ provider_log' = IF p.asked THEN Append(provider_log, i) ELSE provider_log
       /\ IF p.outcome # "ok"
          THEN /\ messages' = Append(messages, Message(i, "warning", p.outcome))
               /\ failed_objects' = AppendFailed(failed_objects, obj_name)
               /\ processed_count' = Continue(processed_count, object_names)
               /\ UNCHANGED <<catalog_log, sql_log, all_lineage_data>>
          ELSE LET object_type == get_object_type(p.db_name, p.schema_name, p.obj_name)
                   fqn == DotJoin(p.db_name, p.schema_name, p.obj_name)
               IN
               /\ catalog_log' = Append(catalog_log, CatalogEntry(i, p))
               /\ IF object_type = "None"
                  THEN /\ messages' = messages \o TypeWarning(i, p) \o
                                      <<Message(i, "warning", "type_unknown")>>
                       /\ failed_objects' = AppendFailed(failed_objects, obj_name)
                       /\ processed_count' = Continue(processed_count, object_names)
                       /\ UNCHANGED <<sql_log, all_lineage_data>>
                  ELSE \E out \in combined_query(obj_name, fqn, object_type, max_distance,
                                             strict_distance) :
                         /\ sql_log' = Append(sql_log,
                               SqlEntry(i, "COMBINED", fqn, object_type, max_distance, out))
                         /\ processed_count' = i
                         /\ IF out.raised
                            THEN /\ messages' = Append(messages,
                                                   Message(i, "warning", "exec_error"))
                                 /\ failed_objects' = AppendFailed(failed_objects, obj_name)
                                 /\ UNCHANGED all_lineage_data
                            ELSE /\ all_lineage_data' = Collect(all_lineage_data, out.rows)
                                 /\ UNCHANGED <<messages, failed_objects>>
    /\ UNCHANGED combined_df
    /\ MultiUnchanged

\* after the loop: concatenate and return combined_df, failed_objects
multi_return ==
    /\ pc = "loop"
    /\ processed_count >= Len(object_names)
    /\ pc' = "returned_multi"
    /\ combined_df' = Concat(all_lineage_data)
    /\ UNCHANGED <<processed_count, all_lineage_data, failed_objects, resolved,
                   provider_log, catalog_log, sql_log, messages>>
    /\ MultiUnchanged

Next ==
    \/ get_lineage_for_single_object
    \/ multi_loop_body
    \/ multi_return

Spec == Init /\ [][Next]_vars

\* get_lineage_for_multiple_objects alone
NextMulti ==
    \/ multi_loop_body
    \/ multi_return

SpecMulti == InitMulti /\ [][NextMulti]_vars

\* ------------------------------------------------------------------------
\* The Streamlit script: one run per interaction, top to bottom
\* ------------------------------------------------------------------------

\* the objects the three select boxes of tab 1 offer: every row of
\* INFORMATION_SCHEMA.TABLES, whatever its TABLE_TYPE
CatalogObjects ==
    {r \in {A, B} \X {A, B} \X {A, B} :
        InformationSchemaTables(r[1], r[2], r[3]).rows # <<>>}

\* what the select boxes hold at the click: nothing (selected_object = ''),
\* or an object of the catalog
Selections == {<<>>} \cup CatalogObjects

\* st.number_input(min_value=1, max_value=5)
UIDistances == MinDistance..MaxDistance

\* the DATABASE_NAME, SCHEMA_NAME, OBJECT_NAME cells of the rows a file holds
FileRows ==
    { <<<<"a">>, <<"a">>, <<"a">>>>,        \* a table with lineage both ways
      <<<<"B">>, <<"B">>, <<"a">>>>,        \* a view without lineage
      <<<<"a">>, <<"B">>, <<"B">>>>,        \* neither a table nor a view
      <<<<"a">>, <<"a">>, <<"B">>>> }       \* a view, the connection unreliable

\* st.file_uploader: no file, a file that cannot be read or lacks a required
\* column, or a file with its rows
NoFile == [uploaded |-> FALSE, readable |-> FALSE, rows |-> <<>>]

BadFile == [uploaded |-> TRUE, readable |-> FALSE, rows |-> <<>>]

Uploads ==
    {NoFile, BadFile} \cup
    {[uploaded |-> TRUE, readable |-> TRUE, rows |-> rows] :
        rows \in UNION {[1..k -> FileRows] : k \in 0..MaxRows}}

\* object_names_from_file: one "DATABASE.SCHEMA.OBJECT" string per row
ObjectNamesFromFile(file) ==
    IF file.uploaded /\ file.readable
    THEN [k \in 1..Len(file.rows) |->
             DotJoin(file.rows[k][1], file.rows[k][2], file.rows[k][3])]
    ELSE <<>>

\* 'key' in st.session_state and st.session_state['key'] is not None
Pending(entry) == entry.kind = "params"

\* the name object_list_input: the script assigns it nowhere
ObjectListInputDefined == FALSE

\* the else of "if not combined_df.empty or failed_objects": st.error("Failed
\* to analyze lineage for any of the specified objects")
BatchErrorShown(df, failed) == ~(df # <<>> \/ failed # <<>>)

\* the locals of both functions before a call
FreshCall ==
    /\ processed_count' = 0
    /\ all_lineage_data' = <<>>
    /\ failed_objects' = <<>>
    /\ combined_df' = <<>>
    /\ single_result' = NoneResult
    /\ resolved' = <<>>
    /\ provider_log' = <<>>
    /\ catalog_log' = <<>>
    /\ sql_log' = <<>>
    /\ messages' = <<>>

\* the script run is over, completed or aborted: its variables are gone, the
\* page and st.session_state stay
EndOfRun ==
    /\ object_full_name' = <<>>
    /\ object_names' = <<>>
    /\ max_distance' = MinDistance
    /\ FreshCall

\* a script run starts: the input column of tab 1 with its button, then the
\* check for a pending single analysis; the first run has no button to click
rerun ==
    /\ pc \in {"idle", "aborted"}
    /\ \E click \in (IF session_state.single_analysis.kind = "absent" THEN {"none"}
                     ELSE {"none", "analyze_single", "analyze_multi"}),
          selected \in Selections, distance \in UIDistances :
          LET requested ==
                  IF click = "analyze_single" /\ selected # <<>>
                  THEN [kind |-> "params",
                        object_name |-> DotJoin(selected[1], selected[2], selected[3]),
                        max_distance |-> distance]
                  ELSE session_state.single_analysis
          IN  /\ clicked' = click
              /\ session_state' = [session_state EXCEPT !.single_analysis = requested]
              /\ IF Pending(requested)
                 THEN /\ pc' = "single"
                      /\ object_full_name' = requested.object_name
                      /\ max_distance' = requested.max_distance
                      /\ rendered' = <<"single_analysis_run">>
                 ELSE /\ pc' = "tab2"
                      /\ rendered' = <<"single_get_started">>
                      /\ UNCHANGED <<object_full_name, max_distance>>
    /\ UNCHANGED <<object_names, current_db, strict_distance, openpyxl,
                   processed_count, all_lineage_data, failed_objects, combined_df,
                   single_result, resolved, provider_log, catalog_log, sql_log, messages>>

\* the output column of tab 1 after the call: the result or the error, then
\* st.session_state['single_analysis'] = None
tab1_results ==
    /\ pc = "returned_single"
    /\ pc' = "tab2"
    /\ rendered' = Append(rendered,
            IF ~single_result.upstream_df.isNone \/ ~single_result.downstream_df.isNone
            THEN "single_success" ELSE "single_failed")
    /\ session_state' = [session_state EXCEPT !.single_analysis = NoneEntry]
    /\ UNCHANGED <<object_full_name, object_names, max_distance, current_db,
                   strict_distance, processed_count, all_lineage_data, failed_objects,
                   combined_df, single_result, resolved, provider_log, catalog_log,
                   sql_log, messages, clicked, openpyxl>>

\* the input column of tab 2: the template, the uploaded file, the button and
\* its choice of a source, then the check for a pending multi analysis
tab2_input ==
    /\ pc = "tab2"
    /\ \E file \in Uploads, distance \in UIDistances :
          LET object_names_from_file == ObjectNamesFromFile(file)
              template == IF openpyxl THEN <<>> ELSE <<"template_error">>
              requested ==
                  IF clicked = "analyze_multi" /\ object_names_from_file # <<>>
                  THEN [kind |-> "params", object_names |-> object_names_from_file,
                        max_distance |-> distance, source |-> "file"]
                  ELSE session_state.multi_analysis
          IN  IF clicked = "analyze_multi" /\ object_names_from_file = <<>>
                 /\ ~ObjectListInputDefined
              THEN \* elif object_list_input.strip(): NameError ends the run
                   /\ pc' = "aborted"
                   /\ rendered' = rendered \o template \o <<"NameError">>
                   /\ UNCHANGED session_state
                   /\ EndOfRun
              ELSE /\ session_state' = [session_state EXCEPT !.multi_analysis = requested]
                   /\ IF Pending(requested)
                      THEN /\ pc' = "loop"
                           /\ object_names' = requested.object_names
                           /\ max_distance' = requested.max_distance
                           /\ rendered' = rendered \o template \o <<"multi_analysis_run">>
                           /\ FreshCall
                           /\ UNCHANGED object_full_name
                      ELSE /\ pc' = "footer"
                           /\ rendered' = rendered \o template \o <<"multi_get_started">>
                           /\ UNCHANGED <<object_full_name,
                                          object_names, max_distance, processed_count,
                                          all_lineage_data, failed_objects, combined_df,
                                          single_result, resolved, provider_log,
                                          catalog_log, sql_log, messages>>
    /\ UNCHANGED <<current_db, strict_distance, clicked, openpyxl>>

\* the output column of tab 2 after the call: the summary and the records
\* with their Excel export, or the batch error, then
\* st.session_state['multi_analysis'] = None
tab2_results ==
    /\ pc = "returned_multi"
    /\ LET summary == <<"summary">> \o
                       (IF failed_objects # <<>> THEN <<"failed_warning">> ELSE <<>>)
           cleared == [session_state EXCEPT !.multi_analysis = NoneEntry]
           kept == UNCHANGED <<object_full_name, object_names, max_distance,
                               processed_count, all_lineage_data, failed_objects,
                               combined_df, single_result, resolved, provider_log,
                               catalog_log, sql_log, messages>>
       IN  IF BatchErrorShown(combined_df, failed_objects)
           THEN /\ rendered' = Append(rendered, "batch_error")
                /\ session_state' = cleared
                /\ pc' = "footer"
                /\ kept
           ELSE IF combined_df = <<>>
           THEN /\ rendered' = rendered \o summary \o <<"no_data_warning">>
                /\ session_state' = cleared
                /\ pc' = "footer"
                /\ kept
           ELSE IF openpyxl
           THEN /\ rendered' = rendered \o summary \o <<"records">>
                /\ session_state' = cleared
                /\ pc' = "footer"
                /\ kept
           ELSE \* with pd.ExcelWriter(output, engine='openpyxl') raises: the
                \* run ends before the line that clears the state
                /\ rendered' = rendered \o summary \o <<"ExcelWriterError">>
                /\ UNCHANGED session_state
                /\ pc' = "aborted"
                /\ EndOfRun
    /\ UNCHANGED <<current_db, strict_distance, clicked, openpyxl>>

\* the last lines of the script: the footer, then the two keys are set to
\* None if they are not in st.session_state
footer ==
    /\ pc = "footer"
    /\ pc' = "idle"
    /\ session_state' =
          [k \in {"single_analysis", "multi_analysis"} |->
              IF session_state[k].kind = "absent" THEN NoneEntry ELSE session_state[k]]
    /\ EndOfRun
    /\ UNCHANGED <<current_db, strict_distance, clicked, openpyxl, rendered>>

\* the page is opened: nothing in st.session_state, no script run yet
InitUI ==
    /\ pc = "idle"
    /\ object_full_name = <<>>
    /\ object_names = <<>>
    /\ current_db \in Databases
    /\ max_distance = MinDistance
    /\ strict_distance = FALSE
    /\ processed_count = 0
    /\ all_lineage_data = <<>>
    /\ failed_objects = <<>>
    /\ combined_df = <<>>
    /\ single_result = NoneResult
    /\ resolved = <<>>
    /\ provider_log = <<>>
    /\ catalog_log = <<>>
    /\ sql_log = <<>>
    /\ messages = <<>>
    /\ session_state = NoSessionState
    /\ clicked = "none"
    /\ openpyxl \in BOOLEAN
    /\ rendered = <<>>

NextUI ==
    \/ rerun
    \/ get_lineage_for_single_object
    \/ tab1_results
    \/ tab2_input
    \/ multi_loop_body
    \/ multi_return
    \/ tab2_results
    \/ footer

SpecUI == InitUI /\ [][NextUI]_vars

\* ------------------------------------------------------------------------
\* Properties
\* ------------------------------------------------------------------------

\* the segments of an identifier: the input trimmed and split on '.'
PartsOf(raw) == Split(Strip(raw))

\* every segment of the identifier is non-empty
NoEmptyPart(raw) == \A k \in 1..Len(PartsOf(raw)) : PartsOf(raw)[k] # <<>>

\* some segment of the identifier is empty after trimming
SomeBlankPart(raw) == \E k \in 1..Len(PartsOf(raw)) : Strip(PartsOf(raw)[k]) = <<>>

ProviderAskedFor(i) == \E k \in 1..Len(provider_log) : provider_log[k] = i

CatalogAskedFor(i) == \E k \in 1..Len(catalog_log) : catalog_log[k].i = i

QueryIssuedFor(i) == \E k \in 1..Len(sql_log) : sql_log[k].i = i

Reported(i, kind) == \E k \in 1..Len(messages) : messages[k].i = i /\ messages[k].kind = kind

\* C1: an identifier of exactly three non-empty segments resolves, in both
\* functions, to the three segments upper-cased in order, and
\* session.get_current_database() is not called for it; the expected triple
\* does not mention current_db
C1_ThreePartResolution ==
    \A k \in 1..Len(resolved) :
        LET e == resolved[k]
            parts == PartsOf(e.raw)
        IN  (Len(parts) = 3 /\ NoEmptyPart(e.raw)) =>
                /\ e.outcome = "ok"
                /\ e.db_name = Upper(parts[1])
                /\ e.schema_name = Upper(parts[2])
                /\ e.obj_name = Upper(parts[3])
                /\ ~ProviderAskedFor(e.i)

\* C1 witness: the single-object function has resolved a three-part
\* identifier with a lower-case letter while a current database exists
C1_Witness ==
    /\ pc = "returned_single"
    /\ Truthy(current_db)
    /\ Len(PartsOf(object_full_name)) = 3
    /\ NoEmptyPart(object_full_name)
    /\ Upper(object_full_name) # object_full_name
    /\ Len(resolved) = 1

\* C2: a two-segment identifier fails with the ambiguous-database error
\* exactly when the current database is None or ''; otherwise it resolves to
\* the upper-cased current database and the two segments upper-cased
C2_TwoPartResolution ==
    \A k \in 1..Len(resolved) :
        LET e == resolved[k]
            parts == PartsOf(e.raw)
        IN  Len(parts) = 2 =>
                /\ e.outcome \in {"ok", "ambiguous_db"}
                /\ e.outcome = "ambiguous_db" <=> ~Truthy(current_db)
                /\ Reported(e.i, "ambiguous_db") <=> ~Truthy(current_db)
                /\ e.outcome = "ok" =>
                      /\ e.db_name = Upper(current_db)
                      /\ e.schema_name = Upper(parts[1])
                      /\ e.obj_name = Upper(parts[2])

\* C2 witness: a batch resolved a two-part identifier against the current
\* database 'a', giving A, A, B
C2_Witness ==
    /\ pc = "returned_multi"
    /\ current_db = <<"a">>
    /\ \E k \in 1..Len(resolved) :
          /\ Len(PartsOf(resolved[k].raw)) = 2
          /\ resolved[k].outcome = "ok"
          /\ resolved[k].db_name = A
          /\ resolved[k].schema_name = A
          /\ resolved[k].obj_name = B

\* C3: an identifier whose segment count is neither 2 nor 3 fails with the
\* invalid-format error, and neither the current database, the catalog nor a
\* lineage query is asked for it
C3_InvalidFormat ==
    \A k \in 1..Len(resolved) :
        LET e == resolved[k] IN
        Len(PartsOf(e.raw)) \notin {2, 3} =>
            /\ e.outcome = "invalid_format"
            /\ Reported(e.i, "invalid_format")
            /\ ~ProviderAskedFor(e.i)
            /\ ~CatalogAskedFor(e.i)
            /\ ~QueryIssuedFor(e.i)

\* C3 witness: the single-object function has rejected a four-part identifier
C3_Witness ==
    /\ pc = "returned_single"
    /\ Len(PartsOf(object_full_name)) = 4
    /\ Reported(1, "invalid_format")

\* C4: an identifier of 2 or 3 segments with a blank segment fails with the
\* invalid-format error, and no reference with an empty field reaches the
\* catalog lookup or a lineage query
C4_BlankSegmentRejected ==
    /\ \A k \in 1..Len(resolved) :
          LET e == resolved[k] IN
          (Len(PartsOf(e.raw)) \in {2, 3} /\ SomeBlankPart(e.raw)) =>
              e.outcome = "invalid_format"
    /\ \A k \in 1..Len(catalog_log) :
          /\ catalog_log[k].db_name # <<>>
          /\ catalog_log[k].schema_name # <<>>
          /\ catalog_log[k].object_name # <<>>

\* C5: no lineage query is handed to session.sql with a distance outside
\* MinDistance..MaxDistance
C5_DistanceChecked ==
    \A k \in 1..Len(sql_log) :
        sql_log[k].max_distance \in MinDistance..MaxDistance

\* C6: get_object_type returns TABLE for a first TABLE_TYPE of 'BASE TABLE',
\* VIEW for 'VIEW', and None for any other value, for no row and for a failed
\* lookup; it returns nothing else
C6_ObjectTypeMapping ==
    \A k \in 1..Len(catalog_log) :
        LET e == catalog_log[k]
            found == ~e.response.raised /\ e.response.rows # <<>>
        IN  /\ e.result \in {"TABLE", "VIEW", "None"}
            /\ e.result = "TABLE" <=> (found /\ e.response.rows[1] = "BASE TABLE")
            /\ e.result = "VIEW" <=> (found /\ e.response.rows[1] = "VIEW")

\* C6 witness: one batch has looked up a table, a view and an object of
\* another type, and one lookup came back without a type
C6_Witness ==
    /\ pc = "returned_multi"
    /\ \E k \in 1..Len(catalog_log) : catalog_log[k].result = "TABLE"
    /\ \E k \in 1..Len(catalog_log) : catalog_log[k].result = "VIEW"
    /\ \E k \in 1..Len(catalog_log) :
          /\ catalog_log[k].response.rows = <<"EXTERNAL TABLE">>
          /\ catalog_log[k].result = "None"

\* the object at input position i was skipped: its name did not resolve, its
\* type was not found, or its query failed
FailedAt(i) ==
    \/ \E k \in 1..Len(resolved) : resolved[k].i = i /\ resolved[k].outcome # "ok"
    \/ \E k \in 1..Len(catalog_log) : catalog_log[k].i = i /\ catalog_log[k].result = "None"
    \/ \E k \in 1..Len(sql_log) : sql_log[k].i = i /\ sql_log[k].raised

\* the rows the warehouse returned for the object at input position i
RowsOf(i) ==
    IF \E k \in 1..Len(sql_log) : sql_log[k].i = i /\ ~sql_log[k].raised
    THEN sql_log[CHOOSE k \in 1..Len(sql_log) : sql_log[k].i = i].rows
    ELSE <<>>

InSeq(x, seq) == \E k \in 1..Len(seq) : seq[k] = x

\* C7: a batch is processed to its end whatever fails: at return every input
\* has been taken, every failed one is in failed_objects, and every row of
\* every object that resolved and executed is in combined_df
C7_PartialFailure ==
    pc = "returned_multi" =>
        /\ Len(resolved) = Len(object_names)
        /\ \A i \in 1..Len(object_names) :
              /\ \E k \in 1..Len(resolved) : resolved[k].i = i
              /\ FailedAt(i) => InSeq(QueriedName(object_names[i]), failed_objects)
              /\ ~FailedAt(i) =>
                    \A r \in 1..Len(RowsOf(i)) : InSeq(RowsOf(i)[r], combined_df)
        /\ Len(failed_objects) = Cardinality({i \in 1..Len(object_names) : FailedAt(i)})

\* C7 witness: no current database; a batch whose first object is two-part
\* and fails, followed by an object whose rows are all returned
C7_Witness ==
    /\ pc = "returned_multi"
    /\ ~Truthy(current_db)
    /\ Len(object_names) >= 2
    /\ Len(PartsOf(object_names[1])) = 2
    /\ failed_objects = <<QueriedName(object_names[1])>>
    /\ RowsOf(2) # <<>>
    /\ combined_df # <<>>

\* the records and the failures a batch has to return, in input order
RECURSIVE ExpectedRecords(_)
ExpectedRecords(i) ==
    IF i > Len(object_names) THEN <<>>
    ELSE (IF FailedAt(i) THEN <<>> ELSE RowsOf(i)) \o ExpectedRecords(i + 1)

RECURSIVE ExpectedFailed(_)
ExpectedFailed(i) ==
    IF i > Len(object_names) THEN <<>>
    ELSE (IF FailedAt(i) THEN <<QueriedName(object_names[i])>> ELSE <<>>)
         \o ExpectedFailed(i + 1)

\* C8: failed_objects and combined_df keep the input order: the failures are
\* the failed inputs in input order, the records are the objects' rows block
\* by block in input order
C8_InputOrder ==
    pc = "returned_multi" =>
        /\ combined_df = ExpectedRecords(1)
        /\ failed_objects = ExpectedFailed(1)

\* C8 witness: three identifiers, the second without a catalog type, the
\* first and the third with different rows
C8_Witness ==
    /\ pc = "returned_multi"
    /\ Len(object_names) = 3
    /\ \E k \in 1..Len(catalog_log) : catalog_log[k].i = 2 /\ catalog_log[k].result = "None"
    /\ failed_objects = <<QueriedName(object_names[2])>>
    /\ RowsOf(1) # <<>>
    /\ RowsOf(3) # <<>>
    /\ QueriedName(object_names[1]) # QueriedName(object_names[3])
    /\ combined_df = RowsOf(1) \o RowsOf(3)

\* where the block of the object at input position i starts in combined_df
RECURSIVE BlockStart(_)
BlockStart(i) ==
    IF i <= 1 THEN 0
    ELSE BlockStart(i - 1) + (IF FailedAt(i - 1) THEN 0 ELSE Len(RowsOf(i - 1)))

\* the records of combined_df that belong to the object at input position i
BlockOf(i) ==
    IF FailedAt(i) THEN <<>>
    ELSE SubSeq(combined_df, BlockStart(i) + 1, BlockStart(i) + Len(RowsOf(i)))

\* C9 as stated: within the block of an object no DOWNSTREAM record precedes
\* an UPSTREAM record
C9_UpstreamFirst ==
    pc = "returned_multi" =>
        \A i \in 1..Len(object_names) :
            \A m, n \in 1..Len(BlockOf(i)) :
                m < n => ~(/\ BlockOf(i)[m].LINEAGE_DIRECTION = "DOWNSTREAM"
                           /\ BlockOf(i)[n].LINEAGE_DIRECTION = "UPSTREAM")

\* C9 amended: within the block of an object all DOWNSTREAM records come
\* first and all UPSTREAM records after them: no UPSTREAM record precedes a
\* DOWNSTREAM record of the same block
C9_DownstreamFirst ==
    pc = "returned_multi" =>
        \A i \in 1..Len(object_names) :
            \A m, n \in 1..Len(BlockOf(i)) :
                m < n => ~(/\ BlockOf(i)[m].LINEAGE_DIRECTION = "UPSTREAM"
                           /\ BlockOf(i)[n].LINEAGE_DIRECTION = "DOWNSTREAM")

\* C9 witness: a returned block holds records of both directions
C9_Witness ==
    /\ pc = "returned_multi"
    /\ \E i \in 1..Len(object_names) :
          /\ \E m \in 1..Len(BlockOf(i)) : BlockOf(i)[m].LINEAGE_DIRECTION = "UPSTREAM"
          /\ \E m \in 1..Len(BlockOf(i)) : BlockOf(i)[m].LINEAGE_DIRECTION = "DOWNSTREAM"

\* the edge a record carries
EdgeOf(r) == Edge(r.DISTANCE, r.SOURCE_OBJECT_NAME, r.TARGET_OBJECT_NAME)

\* the lineage call the record came from returned its edge, unchanged
FromLineageCall(i, r) ==
    \E k \in 1..Len(sql_log) :
        /\ sql_log[k].i = i
        /\ r.LINEAGE_DIRECTION \in {"UPSTREAM", "DOWNSTREAM"}
        /\ InSeq(EdgeOf(r), GET_LINEAGE(sql_log[k].fqn, sql_log[k].object_type,
                                        r.LINEAGE_DIRECTION, max_distance))

\* C10 as stated: every record carries the raw input text upper-cased, the
\* direction of the call that produced its edge, and that edge unchanged
C10_TaggedWithRawUpper ==
    pc = "returned_multi" =>
        \A i \in 1..Len(object_names) :
            \A m \in 1..Len(BlockOf(i)) :
                /\ BlockOf(i)[m].QUERIED_OBJECT = Upper(object_names[i])
                /\ FromLineageCall(i, BlockOf(i)[m])

\* C10 amended: every record carries the raw input text trimmed and
\* upper-cased (the two-part text for a two-part input), the direction of the
\* call that produced its edge, and that edge unchanged
C10_TaggedWithTrimmedUpper ==
    pc = "returned_multi" =>
        \A i \in 1..Len(object_names) :
            \A m \in 1..Len(BlockOf(i)) :
                /\ BlockOf(i)[m].QUERIED_OBJECT = Upper(Strip(object_names[i]))
                /\ FromLineageCall(i, BlockOf(i)[m])

\* C10 witness: a batch returned records for a two-part input and for an
\* input with white space around it
C10_Witness ==
    /\ pc = "returned_multi"
    /\ \E i \in 1..Len(object_names) :
          Len(PartsOf(object_names[i])) = 2 /\ BlockOf(i) # <<>>
    /\ \E i \in 1..Len(object_names) :
          Strip(object_names[i]) # object_names[i] /\ BlockOf(i) # <<>>

\* how often x occurs in seq
Occurrences(x, seq) == Cardinality({k \in 1..Len(seq) : seq[k] = x})

\* the upstream edges followed by the downstream edges the lineage function
\* holds for the object at input position i, failed or not queried: none
LineageOf(i) ==
    IF FailedAt(i) \/ ~QueryIssuedFor(i) THEN <<>>
    ELSE LET q == sql_log[CHOOSE k \in 1..Len(sql_log) : sql_log[k].i = i] IN
         GET_LINEAGE(q.fqn, q.object_type, "UPSTREAM", q.max_distance) \o
         GET_LINEAGE(q.fqn, q.object_type, "DOWNSTREAM", q.max_distance)

\* the lineage edges of the input positions i..n, one after the other
RECURSIVE LineageFrom(_)
LineageFrom(i) ==
    IF i > Len(object_names) THEN <<>> ELSE LineageOf(i) \o LineageFrom(i + 1)

\* the edges of the records, the two literal columns taken off
EdgesOf(records) == [k \in 1..Len(records) |-> EdgeOf(records[k])]

\* C11: the aggregator removes no duplicate: the number of records is the sum,
\* over the objects processed without failure, of their upstream and
\* downstream edge counts, and an edge occurs in the records as often as it
\* occurs in the answers for the input entries, once per entry that has it
C11_NoDeduplication ==
    pc = "returned_multi" =>
        /\ Len(combined_df) = Len(LineageFrom(1))
        /\ \A k \in 1..Len(LineageFrom(1)) :
              Occurrences(LineageFrom(1)[k], EdgesOf(combined_df)) =
                  Occurrences(LineageFrom(1)[k], LineageFrom(1))

\* C11 witness: a batch of three entries, one identifier listed twice and a
\* different object that shares an edge with it: the edge is in the records
\* three times, and two of the records are equal in every column
C11_Witness ==
    /\ pc = "returned_multi"
    /\ Len(object_names) = 3
    /\ QueriedName(object_names[1]) = QueriedName(object_names[2])
    /\ QueriedName(object_names[1]) # QueriedName(object_names[3])
    /\ \E k \in 1..Len(combined_df) :
          /\ Occurrences(EdgeOf(combined_df[k]), EdgesOf(combined_df)) = 3
          /\ Occurrences(combined_df[k], combined_df) = 2

\* the single-object call returned None, None, None
AllAbsent ==
    /\ single_result.upstream_df.isNone
    /\ single_result.downstream_df.isNone
    /\ single_result.object_type = "None"

\* C12: in the single-object function a resolution failure (a name of neither
\* two nor three parts, a two-part name without a current database, a type
\* the catalog does not give) returns None, None, None and no lineage query,
\* upstream or downstream, is handed to the executor
C12_ResolutionShortCircuit ==
    pc = "returned_single" =>
        LET n == Len(PartsOf(object_full_name))
            invalid_format == n \notin {2, 3}
            ambiguous_db == n = 2 /\ ~Truthy(current_db)
            type_unknown == \E k \in 1..Len(catalog_log) : catalog_log[k].result = "None"
        IN  (invalid_format \/ ambiguous_db \/ type_unknown) =>
                AllAbsent /\ sql_log = <<>>

\* C12 witness: the catalog was asked, answered with a type that is neither
\* table nor view, and the call returned without a lineage query
C12_Witness ==
    /\ pc = "returned_single"
    /\ Len(catalog_log) = 1
    /\ catalog_log[1].response.rows = <<"EXTERNAL TABLE">>
    /\ catalog_log[1].result = "None"
    /\ sql_log = <<>>
    /\ AllAbsent

\* C13: in the single-object function a lineage query that raises, upstream
\* or downstream, gives one error outcome: the two DataFrames and the type
\* are None together, the error is reported, and no empty DataFrame stands
\* in for the direction that failed
C13_ExecutionFailureIsTotal ==
    (pc = "returned_single" /\ \E k \in 1..Len(sql_log) : sql_log[k].raised) =>
        /\ AllAbsent
        /\ Reported(1, "exec_error")
        /\ single_result.upstream_df # Df(<<>>)
        /\ single_result.downstream_df # Df(<<>>)

\* C13 witness: the upstream query was answered with rows, the downstream
\* query raised, and the call returned None, None, None
C13_Witness ==
    /\ pc = "returned_single"
    /\ Len(sql_log) = 2
    /\ sql_log[1].direction = "UPSTREAM" /\ ~sql_log[1].raised /\ sql_log[1].rows # <<>>
    /\ sql_log[2].direction = "DOWNSTREAM" /\ sql_log[2].raised
    /\ AllAbsent

\* the single-object call handed a query of this direction to the executor
Issued(direction) == \E k \in 1..Len(sql_log) : sql_log[k].direction = direction

\* the executor answered the query of this direction
Answered(direction) ==
    \E k \in 1..Len(sql_log) : sql_log[k].direction = direction /\ ~sql_log[k].raised

\* C15: in the single-object function the two executions are independent:
\* when the upstream query raises, the downstream query is still issued and
\* its answer is part of the result, and the other way round (stated for the
\* distances the lineage function documents)
C15_DirectionsIndependent ==
    (pc = "returned_single" /\ ~Undocumented(max_distance)) =>
        /\ (Issued("UPSTREAM") /\ ~Answered("UPSTREAM")) =>
              /\ Issued("DOWNSTREAM")
              /\ Answered("DOWNSTREAM") => ~single_result.downstream_df.isNone
        /\ (Issued("DOWNSTREAM") /\ ~Answered("DOWNSTREAM")) =>
              /\ Issued("UPSTREAM")
              /\ Answered("UPSTREAM") => ~single_result.upstream_df.isNone

\* the number of entries of a log that satisfy a test, by input position
CallsFor(i, log) == Cardinality({k \in 1..Len(log) : log[k].i = i})

\* C16: nothing is retried: for each input position the current database is
\* asked for at most once, the catalog at most once, the executor at most
\* once per direction in the single-object function (upstream before
\* downstream) and once in all in the multi-object function; after a call that
\* failed no collaborator is called again for the same position
C16_NoRetries ==
    \A i \in 1..(Len(object_names) + 1) :
        /\ Cardinality({k \in 1..Len(provider_log) : provider_log[k] = i}) <= 1
        /\ CallsFor(i, catalog_log) <= 1
        /\ \A d \in {"UPSTREAM", "DOWNSTREAM", "COMBINED"} :
              Cardinality({k \in 1..Len(sql_log) :
                              sql_log[k].i = i /\ sql_log[k].direction = d}) <= 1
        /\ pc \in {"loop", "returned_multi"} =>
              /\ CallsFor(i, sql_log) <= 1
              /\ \A k \in 1..Len(sql_log) : sql_log[k].direction = "COMBINED"
        /\ pc \in {"single", "returned_single"} =>
              \A k \in 1..Len(sql_log) :
                  /\ sql_log[k].direction \in {"UPSTREAM", "DOWNSTREAM"}
                  /\ sql_log[k].direction = "DOWNSTREAM" =>
                        k = 2 /\ sql_log[1].direction = "UPSTREAM"
        /\ \A k \in 1..Len(sql_log) :
              (sql_log[k].i = i /\ sql_log[k].raised) =>
                  \A l \in (k + 1)..Len(sql_log) : sql_log[l].i # i
        /\ (\E k \in 1..Len(catalog_log) :
                catalog_log[k].i = i /\ catalog_log[k].response.raised) =>
              ~QueryIssuedFor(i)
        /\ (\E k \in 1..Len(resolved) :
                resolved[k].i = i /\ resolved[k].outcome = "ambiguous_db") =>
              ~CatalogAskedFor(i) /\ ~QueryIssuedFor(i)

\* C16 witness: a returned batch in which the current database was asked for
\* a name it could not complete, a catalog lookup raised and a lineage query
\* raised, each for another input position
C16_Witness ==
    /\ pc = "returned_multi"
    /\ ~Undocumented(max_distance)
    /\ Len(object_names) = 3
    /\ \E i, j \in 1..3 :
          /\ i # j
          /\ \E k \in 1..Len(sql_log) : sql_log[k].i = i /\ sql_log[k].raised
          /\ \E k \in 1..Len(resolved) :
                resolved[k].i = j /\ resolved[k].outcome = "ambiguous_db"
    /\ Len(failed_objects) >= 2

\* the rows collected so far, one DataFrame after the other
RECURSIVE Flattened(_)
Flattened(data) == IF data = <<>> THEN <<>> ELSE Head(data) \o Flattened(Tail(data))

\* the records an iteration boundary holds: collected, or already returned
RecordsSoFar == IF pc = "returned_multi" THEN combined_df ELSE Flattened(all_lineage_data)

\* position by position: the entries taken so far are the first
\* processed_count ones, each failed one is in failed_objects once, as its
\* trimmed upper-cased text, and adds no record, each other one adds the rows
\* its combined query returned; so the failures never outnumber the entries
\* taken and the success count of the UI is not negative
AccountedOnce ==
    /\ processed_count <= Len(object_names)
    /\ Len(resolved) = processed_count
    /\ \A k \in 1..Len(resolved) : resolved[k].i = k
    /\ failed_objects = ExpectedFailed(1)
    /\ RecordsSoFar = ExpectedRecords(1)
    /\ Len(failed_objects) <= processed_count
    /\ Len(object_names) - Len(failed_objects) >= 0

\* C17 as stated: at every iteration boundary and at return each entry taken
\* is accounted for once, and no QUERIED_OBJECT value of a record is the name
\* of an entry in failed_objects
C17_NoRecordNamedAsFailure ==
    pc \in {"loop", "returned_multi"} =>
        /\ AccountedOnce
        /\ \A r \in 1..Len(RecordsSoFar) :
              ~InSeq(RecordsSoFar[r].QUERIED_OBJECT, failed_objects)

\* C17 amended: at every iteration boundary and at return each entry taken
\* is accounted for once by its position; a record carries the name of an
\* entry in failed_objects only when the same identifier is listed at another
\* position that did not fail
C17_AccountedByPosition ==
    pc \in {"loop", "returned_multi"} =>
        /\ AccountedOnce
        /\ \A r \in 1..Len(RecordsSoFar) :
              \E i \in 1..processed_count :
                  /\ ~FailedAt(i)
                  /\ QueriedName(object_names[i]) = RecordsSoFar[r].QUERIED_OBJECT

\* C17 witness: an iteration boundary inside the loop, after an identifier
\* failed at one position and returned rows at another
C17_Witness ==
    /\ pc = "loop"
    /\ processed_count = 2
    /\ Len(object_names) = 3
    /\ QueriedName(object_names[1]) = QueriedName(object_names[2])
    /\ FailedAt(1)
    /\ ~FailedAt(2)
    /\ all_lineage_data # <<>>
    /\ failed_objects = <<QueriedName(object_names[1])>>

\* the script run has reached the end of tab 2 after a multi-object analysis
MultiResultsShown == pc = "footer" /\ InSeq("multi_analysis_run", rendered)

\* C14: the page reports the batch-level error "Failed to analyze lineage for
\* any of the specified objects" exactly when no input object was processed
\* without failure; a batch with a successful object never gets it, even if
\* every successful object has no edge
C14_BatchErrorIffNothingProcessed ==
    MultiResultsShown =>
        (InSeq("batch_error", rendered) <=> Len(failed_objects) = Len(object_names))

\* C18: a pending analysis is consumed once: at the end of every script run
\* both keys of st.session_state are None, and an analysis runs only in the
\* script run its button's click started
C18_PendingConsumedOnce ==
    /\ (pc \in {"idle", "aborted"} /\ rendered # <<>>) =>
          /\ session_state.single_analysis = NoneEntry
          /\ session_state.multi_analysis = NoneEntry
    /\ InSeq("single_analysis_run", rendered) => clicked = "analyze_single"
    /\ InSeq("multi_analysis_run", rendered) => clicked = "analyze_multi"

\* C19: after a click on 'Analyze Objects' the script run goes on whatever
\* the source: identifiers from the file are scheduled with source 'file',
\* and without them the run is not ended by an unhandled error
C19_ClickNeverAborts ==
    clicked = "analyze_multi" =>
        /\ ~InSeq("NameError", rendered)
        /\ Pending(session_state.multi_analysis) =>
              /\ session_state.multi_analysis.source = "file"
              /\ session_state.multi_analysis.object_names # <<>>
====
